---- MODULE Spec2Model ----
(***************************************************************************)
(* Model of the bridge bootstrap of parity-bridge: App::ensure_deployed    *)
(* and App::deploy (src/src/app.rs), run repeatedly against one            *)
(* database_path.                                                          *)
(*                                                                         *)
(* Option<T> is modelled as a sequence of length at most one.              *)
(***************************************************************************)
EXTENDS Integers, Sequences, FiniteSets, TLC

VARIABLES
    file,         \* what database_path holds: [exists, content]
    readable,     \* whether database_path can be opened for reading
    phase,        \* "idle": no run in progress; "deploying": the deploy future is being driven
    notified,     \* the event loop has a wake-up pending for the deploy future
    main_future,  \* the mainnet confirmation task
    test_future,  \* the testnet confirmation task
    history,      \* one entry per ensure_deployed run, the last one being the current run
    plan,         \* the per-network results fixed in advance (order comparison only)
    document,     \* the configuration document handed to Config::load_from_str
    config        \* what Config::load_from_str returned for it

app_vars == <<file, readable, phase, notified, main_future, test_future, history>>

config_vars == <<document, config>>

vars == <<app_vars, plan, config_vars>>

\* ------------------------------------------------------------------ bounds

MaxRuns == 2
MaxBlock == 1
MaxAddr == 1

\* ------------------------------------------------------------------ values

None == <<>>
Some(x) == <<x>>

\* U256: the least significant 64-bit limb and the rest.
HighLimbs == {0, 1}
U256 == [low : 0..MaxBlock, high : HighLimbs]

\* Address (H160): the bytes its Display shows and the bytes it elides (one sample).
MiddleBytes == {1}
Address == [ends : 0..MaxAddr, middle : MiddleBytes]

TransactionReceipt == [block_number : U256,
                       contract_address : {None} \cup {Some(a) : a \in Address}]

Web3Errors == {"Unreachable", "Decoder"}

NoFuture == [state |-> "none", receipt |-> None, error |-> ""]
Pending == [state |-> "pending", receipt |-> None, error |-> ""]
Dropped == [state |-> "dropped", receipt |-> None, error |-> ""]
Confirmed(r) == [state |-> "ok", receipt |-> Some(r), error |-> ""]
Failed(e) == [state |-> "err", receipt |-> None, error |-> e]

Web3Error(e) == [kind |-> "Web3", detail |-> e]
IoError(k) == [kind |-> "Io", detail |-> k]
TomlError == [kind |-> "Toml", detail |-> "Parse"]

\* ------------------------------------------------------------------ U256, Address

low_u64(n) == n.low

to_string(a) == a.ends

\* ------------------------------------------------------------------ Database

\* BlockchainState with a cursor that is not taken from the receipt.
BlockchainState_StaleLast(receipt) ==
    [deploy_block_number |-> low_u64(receipt.block_number),
     last_block_number |-> 0,
     bridge_contract_address |-> to_string(receipt.contract_address[1])]

BlockchainState(receipt) ==
    [deploy_block_number |-> low_u64(receipt.block_number),
     last_block_number |-> low_u64(receipt.block_number),
     bridge_contract_address |-> to_string(receipt.contract_address[1])]

\* A record whose two entries are built from the other network's receipt.
Database_CrossWired(main_receipt, test_receipt) ==
    [mainnet |-> BlockchainState(test_receipt),
     testnet |-> BlockchainState(main_receipt)]

Database(main_receipt, test_receipt) ==
    [mainnet |-> BlockchainState(main_receipt),
     testnet |-> BlockchainState(test_receipt)]

\* The persisted form: the six values of the record, mainnet first.
Serialize(database) ==
    <<database.mainnet.deploy_block_number,
      database.mainnet.last_block_number,
      database.mainnet.bridge_contract_address,
      database.testnet.deploy_block_number,
      database.testnet.last_block_number,
      database.testnet.bridge_contract_address>>

Deserialize(content) ==
    IF Len(content) = 6
    THEN Some([mainnet |-> [deploy_block_number |-> content[1],
                            last_block_number |-> content[2],
                            bridge_contract_address |-> content[3]],
               testnet |-> [deploy_block_number |-> content[4],
                            last_block_number |-> content[5],
                            bridge_contract_address |-> content[6]]])
    ELSE None

NoFile == [exists |-> FALSE, content |-> <<>>]
FileOf(content) == [exists |-> TRUE, content |-> content]

Ok(database) == [kind |-> "ok", database |-> Some(database), error |-> IoError("")]
Err(error) == [kind |-> "err", database |-> None, error |-> error]
Panic == [kind |-> "panic", database |-> None, error |-> IoError("")]
Killed == [kind |-> "killed", database |-> None, error |-> IoError("")]
Running == [kind |-> "running", database |-> None, error |-> IoError("")]

\* Database::load: read and deserialize the record at the path.
Database_load(f, r) ==
    IF ~r THEN Err(IoError("PermissionDenied"))
    ELSE IF ~f.exists THEN Err(IoError("NotFound"))
    ELSE IF Deserialize(f.content) = None THEN Err(TomlError)
    ELSE Ok(Deserialize(f.content)[1])

\* Database::save: serialize and write the record; a failed save leaves the path as it was.
Database_save(database, f, succeeds) ==
    IF succeeds THEN FileOf(Serialize(database)) ELSE f

\* ------------------------------------------------------------------ deploy

NotReady == [state |-> "NotReady", main_receipt |-> None, test_receipt |-> None, error |-> ""]
Ready(a, b) == [state |-> "Ready", main_receipt |-> a, test_receipt |-> b, error |-> ""]
JoinErr(e) == [state |-> "Err", main_receipt |-> None, test_receipt |-> None, error |-> e]

\* A join that is ready as soon as mainnet holds a receipt (a select, not a join).
Join_Select(a, b) ==
    IF a.state = "err" THEN JoinErr(a.error)
    ELSE IF b.state = "err" THEN JoinErr(b.error)
    ELSE IF a.state = "ok"
         THEN Ready(a.receipt, IF b.state = "ok" THEN b.receipt ELSE a.receipt)
    ELSE NotReady

\* A join that does not propagate the testnet task's error.
Join_IgnoreTestError(a, b) ==
    IF a.state = "err" THEN JoinErr(a.error)
    ELSE IF a.state = "ok" /\ b.state = "ok" THEN Ready(a.receipt, b.receipt)
    ELSE NotReady

\* main_future.join(test_future): polls main then test; the first error found ends the
\* join, and it is ready once both hold a receipt.
Join(a, b) ==
    IF a.state = "err" THEN JoinErr(a.error)
    ELSE IF b.state = "err" THEN JoinErr(b.error)
    ELSE IF a.state = "ok" /\ b.state = "ok" THEN Ready(a.receipt, b.receipt)
    ELSE NotReady

DefaultAddress == [ends |-> 0, middle |-> 0]

WithDefaultAddress(receipt) ==
    [receipt EXCEPT !.contract_address = IF @ = None THEN Some(DefaultAddress) ELSE @]

\* deploy with unwrap_or_default in place of expect.
deploy_DefaultAddress(a, b) ==
    LET j == Join(a, b) IN
    IF j.state = "NotReady" THEN Running
    ELSE IF j.state = "Err" THEN Err(Web3Error(j.error))
    ELSE Ok(Database(WithDefaultAddress(j.main_receipt[1]),
                     WithDefaultAddress(j.test_receipt[1])))

\* One poll of the future deploy() returns.
deploy(a, b) ==
    LET j == Join(a, b) IN
    IF j.state = "NotReady" THEN Running
    ELSE IF j.state = "Err" THEN Err(Web3Error(j.error))
    ELSE IF j.main_receipt[1].contract_address = None THEN Panic
    ELSE IF j.test_receipt[1].contract_address = None THEN Panic
    ELSE Ok(Database(j.main_receipt[1], j.test_receipt[1]))

\* ------------------------------------------------------------------ ensure_deployed

\* A match that deploys on every load error.
ShouldDeploy_AnyError(loaded) == loaded.kind = "err"

\* A bootstrap that deploys whatever the load returned.
ShouldDeploy_Always(loaded) == TRUE

\* The match arm that starts a deployment: the load failed with io::ErrorKind::NotFound.
ShouldDeploy(loaded) ==
    loaded.kind = "err" /\ loaded.error = IoError("NotFound")

\* The and_then closure: whether the record deploy() produced is saved.
ShouldSave(deployed) == deployed.kind = "ok"

\* A closure that reports the save as failed whether or not it succeeded.
SaveResult_AlwaysErr(deployed, succeeds) == Err(IoError("WriteFailed"))

\* A closure that drops the save's result (no `?`).
SaveResult_IgnoreError(deployed, succeeds) == deployed

\* The and_then closure: what the run returns, given whether the save succeeded.
SaveResult(deployed, succeeds) ==
    IF succeeds THEN deployed ELSE Err(IoError("WriteFailed"))

Entry(f, loaded) ==
    [file_before |-> f, loaded |-> loaded, outcome |-> loaded,
     deploy_calls |-> 0, main_txs |-> 0, test_txs |-> 0,
     saves |-> 0, writes |-> 0,
     main_end |-> "none", test_end |-> "none",
     file_after |-> f]

Last == history[Len(history)]

SetLast(e) == [history EXCEPT ![Len(history)] = e]

DropIfPending(fut) == IF fut.state = "pending" THEN Dropped ELSE fut

\* ------------------------------------------------------------------ the state machine

InitialContents ==
    { <<0, 1, 0, 0, 0, 1>>,   \* a record whose mainnet cursor has advanced since deployment
      <<0, 0, 0>> }           \* a truncated file

Init ==
    /\ file \in {NoFile} \cup {FileOf(c) : c \in InitialContents}
    /\ readable \in BOOLEAN
    /\ phase = "idle"
    /\ notified = FALSE
    /\ main_future = NoFuture
    /\ test_future = NoFuture
    /\ history = <<>>

\* The bootstrap on its own: no plan, and the configuration is not part of the state.
NoPlan == [main |-> NoFuture, test |-> NoFuture, save |-> FALSE, first |-> <<>>]

NoDocument == <<>>

InitApp ==
    /\ Init
    /\ plan = NoPlan
    /\ document = NoDocument
    /\ config = None

\* An ensure_deployed that writes a provisional record before the deployment is confirmed.
EnsureDeployed_SaveEarly ==
    /\ phase = "idle"
    /\ Len(history) < MaxRuns
    /\ LET loaded == Database_load(file, readable) IN
       IF ShouldDeploy(loaded)
       THEN /\ history' = Append(history,
                    [Entry(file, loaded) EXCEPT !.outcome = Running, !.deploy_calls = 1,
                                                !.main_txs = 1, !.test_txs = 1,
                                                !.file_after = FileOf(<<0, 0, 0, 0, 0, 0>>)])
            /\ file' = FileOf(<<0, 0, 0, 0, 0, 0>>)
            /\ main_future' = Pending
            /\ test_future' = Pending
            /\ phase' = "deploying"
       ELSE /\ history' = Append(history, Entry(file, loaded))
            /\ file' = file
            /\ main_future' = NoFuture
            /\ test_future' = NoFuture
            /\ phase' = "idle"
    /\ notified' = FALSE
    /\ UNCHANGED <<readable, plan, config_vars>>

\* A process calls ensure_deployed: the load, and on NotFound the call of deploy(), which
\* hands both transaction requests to send_transaction_with_confirmation.
EnsureDeployed ==
    /\ phase = "idle"
    /\ Len(history) < MaxRuns
    /\ LET loaded == Database_load(file, readable) IN
       IF ShouldDeploy(loaded)
       THEN /\ history' = Append(history,
                    [Entry(file, loaded) EXCEPT !.outcome = Running, !.deploy_calls = 1,
                                                !.main_txs = 1, !.test_txs = 1])
            /\ main_future' = Pending
            /\ test_future' = Pending
            /\ phase' = "deploying"
       ELSE /\ history' = Append(history, Entry(file, loaded))
            /\ main_future' = NoFuture
            /\ test_future' = NoFuture
            /\ phase' = "idle"
    /\ notified' = FALSE
    /\ UNCHANGED <<file, readable, plan, config_vars>>

\* The mainnet confirmation task resolves: a receipt or a transport error.
MainResolve ==
    /\ phase = "deploying"
    /\ main_future = Pending
    /\ \/ \E r \in TransactionReceipt : main_future' = Confirmed(r)
       \/ \E e \in Web3Errors : main_future' = Failed(e)
    /\ notified' = TRUE
    /\ UNCHANGED <<file, readable, phase, test_future, history, plan, config_vars>>

\* The testnet confirmation task resolves: a receipt or a transport error.
TestResolve ==
    /\ phase = "deploying"
    /\ test_future = Pending
    /\ \/ \E r \in TransactionReceipt : test_future' = Confirmed(r)
       \/ \E e \in Web3Errors : test_future' = Failed(e)
    /\ notified' = TRUE
    /\ UNCHANGED <<file, readable, phase, main_future, history, plan, config_vars>>

\* The deploy future has resolved: the and_then closure (the save) and the end of the run.
Finish(deployed) ==
    /\ phase' = "idle"
    /\ main_future' = DropIfPending(main_future)
    /\ test_future' = DropIfPending(test_future)
    /\ IF ShouldSave(deployed)
       THEN \E succeeds \in BOOLEAN :
              /\ file' = Database_save(deployed.database[1], file, succeeds)
              /\ history' = SetLast(
                    [Last EXCEPT !.outcome = SaveResult(deployed, succeeds),
                                 !.saves = @ + 1,
                                 !.writes = @ + (IF succeeds THEN 1 ELSE 0),
                                 !.main_end = main_future.state,
                                 !.test_end = test_future.state,
                                 !.file_after = file'])
       ELSE /\ file' = file
            /\ history' = SetLast(
                    [Last EXCEPT !.outcome = deployed,
                                 !.main_end = main_future.state,
                                 !.test_end = test_future.state])

\* A poll that answers a failed deployment by submitting both transactions again.
Poll_Retry ==
    /\ phase = "deploying"
    /\ notified
    /\ notified' = FALSE
    /\ LET deployed == deploy(main_future, test_future) IN
       IF deployed.kind = "running"
       THEN UNCHANGED <<file, phase, main_future, test_future, history>>
       ELSE IF deployed.kind = "err"
       THEN /\ main_future' = Pending
            /\ test_future' = Pending
            /\ history' = SetLast([Last EXCEPT !.deploy_calls = @ + 1,
                                               !.main_txs = @ + 1,
                                               !.test_txs = @ + 1])
            /\ UNCHANGED <<file, phase>>
       ELSE Finish(deployed)
    /\ UNCHANGED <<readable, plan, config_vars>>

\* A poll that, when the deployment fails with one network confirmed, writes what it has.
Poll_PersistPartial ==
    /\ phase = "deploying"
    /\ notified
    /\ notified' = FALSE
    /\ LET deployed == deploy(main_future, test_future) IN
       IF deployed.kind = "running"
       THEN UNCHANGED <<file, phase, main_future, test_future, history>>
       ELSE IF deployed.kind = "err" /\ (main_future.state = "ok" \/ test_future.state = "ok")
       THEN /\ phase' = "idle"
            /\ main_future' = DropIfPending(main_future)
            /\ test_future' = DropIfPending(test_future)
            /\ file' = FileOf(<<0, 0, 0>>)
            /\ history' = SetLast(
                    [Last EXCEPT !.outcome = deployed,
                                 !.writes = @ + 1,
                                 !.main_end = main_future.state,
                                 !.test_end = test_future.state,
                                 !.file_after = file'])
       ELSE Finish(deployed)
    /\ UNCHANGED <<readable, plan, config_vars>>

\* The event loop polls the future ensure_deployed returned: the join, the construction of
\* the record, and the save.
Poll ==
    /\ phase = "deploying"
    /\ notified
    /\ notified' = FALSE
    /\ LET deployed == deploy(main_future, test_future) IN
       IF deployed.kind = "running"
       THEN UNCHANGED <<file, phase, main_future, test_future, history>>
       ELSE Finish(deployed)
    /\ UNCHANGED <<readable, plan, config_vars>>

\* The process is terminated while the deployment is in progress.
Kill ==
    /\ phase = "deploying"
    /\ phase' = "idle"
    /\ notified' = FALSE
    /\ main_future' = DropIfPending(main_future)
    /\ test_future' = DropIfPending(test_future)
    /\ history' = SetLast([Last EXCEPT !.outcome = Killed])
    /\ UNCHANGED <<file, readable, plan, config_vars>>

\* The process is terminated inside the call of deploy(): before the first or before the
\* second transaction request is handed over.
KillInDeploy ==
    /\ phase = "idle"
    /\ Len(history) < MaxRuns
    /\ ShouldDeploy(Database_load(file, readable))
    /\ \E submitted \in {0, 1} :
         history' = Append(history,
            [Entry(file, Database_load(file, readable))
                EXCEPT !.outcome = Killed, !.deploy_calls = 1, !.main_txs = submitted])
    /\ main_future' = NoFuture
    /\ test_future' = NoFuture
    /\ notified' = FALSE
    /\ UNCHANGED <<file, readable, phase, plan, config_vars>>

Next ==
    \/ EnsureDeployed
    \/ MainResolve
    \/ TestResolve
    \/ Poll
    \/ Kill
    \/ KillInDeploy

Spec == InitApp /\ [][Next]_vars

\* The bootstrap in a process that is left running: each confirmation task that is
\* pending eventually resolves, and the event loop polls a future that was woken.
NextLive ==
    \/ EnsureDeployed
    \/ MainResolve
    \/ TestResolve
    \/ Poll

Fairness ==
    /\ WF_vars(MainResolve)
    /\ WF_vars(TestResolve)
    /\ WF_vars(Poll)

SpecLive == InitApp /\ [][NextLive]_vars /\ Fairness

\* Two bootstraps from the same starting state (an absent path), with the same result
\* fixed in advance for each network's task and for the save, and a free interleaving of
\* the tasks and the polls in each; plan.first names the task that resolves first.
Sides == {"main", "test"}

Results == {Confirmed(r) : r \in TransactionReceipt} \cup {Failed(e) : e \in Web3Errors}

InitOrder ==
    /\ file = NoFile
    /\ readable = TRUE
    /\ phase = "idle"
    /\ notified = FALSE
    /\ main_future = NoFuture
    /\ test_future = NoFuture
    /\ history = <<>>
    /\ plan \in [main : Results, test : Results, save : BOOLEAN,
                 first : {<<a, b>> : a \in Sides, b \in Sides}]
    /\ document = NoDocument
    /\ config = None

StartPlanned ==
    /\ Len(history) < Len(plan.first)
    /\ file = NoFile
    /\ EnsureDeployed

MainResolvePlanned ==
    /\ MainResolve
    /\ main_future' = plan.main
    /\ plan.first[Len(history)] = "test" => test_future # Pending

TestResolvePlanned ==
    /\ TestResolve
    /\ test_future' = plan.test
    /\ plan.first[Len(history)] = "main" => main_future # Pending

PollPlanned ==
    /\ Poll
    /\ Last'.saves > Last.saves => ((Last'.writes > Last.writes) <=> plan.save)

\* The path is cleared after the first bootstrap, so that the second one starts as it did.
ClearPath ==
    /\ phase = "idle"
    /\ Len(history) = 1
    /\ file.exists
    /\ file' = NoFile
    /\ UNCHANGED <<readable, phase, notified, main_future, test_future, history,
                   plan, config_vars>>

NextOrder ==
    \/ StartPlanned
    \/ MainResolvePlanned
    \/ TestResolvePlanned
    \/ PollPlanned
    \/ ClearPath

SpecOrder == InitOrder /\ [][NextOrder]_vars

\* ------------------------------------------------------------------ config

DEFAULT_POLL_INTERVAL == 1
DEFAULT_CONFIRMATIONS == 12
DEFAULT_TIMEOUT == 5

MaxValue == 2

\* The values a document gives to a node's optional fields and to gas and gas_price.
NodeValues == 1..MaxValue
GasValues == {MaxValue}

Optional(S) == {None} \cup {Some(x) : x \in S}

BinPaths == {"HomeBridge.bin", "missing.bin"}

TransactionTypes ==
    {"home_deploy", "foreign_deploy", "deposit_relay", "withdraw_confirm", "withdraw_relay"}

\* The tables of a document as toml::from_str sees them. The required fields that are
\* copied unchanged (address, http, authorities, the three U256 values) are left out.
load_TransactionConfig == [gas : Optional(GasValues), gas_price : Optional(GasValues)]

load_Transactions == [TransactionTypes -> Optional(load_TransactionConfig)]

load_NodeConfig ==
    [bin : BinPaths,
     request_timeout : Optional(NodeValues),
     poll_interval : Optional(NodeValues),
     required_confirmations : Optional(NodeValues)]

\* Where a document can hold a field the schema does not have, and the struct that
\* deserializes that table.
Places ==
    {"top", "home", "foreign", "home.contract", "foreign.contract", "authorities",
     "transactions"} \cup {"transactions." \o t : t \in TransactionTypes}

StructOf(place) ==
    CASE place = "top" -> "Config"
      [] place \in {"home", "foreign"} -> "NodeConfig"
      [] place \in {"home.contract", "foreign.contract"} -> "ContractConfig"
      [] place = "authorities" -> "Authorities"
      [] place = "transactions" -> "Transactions"
      [] OTHER -> "TransactionConfig"

\* A schema in which only the top-level struct rejects unknown fields.
DenyUnknownFields_TopOnly(struct) == struct = "Config"

\* #[serde(deny_unknown_fields)] on the structs of mod load.
DenyUnknownFields(struct) ==
    struct \in {"Config", "NodeConfig", "Transactions", "TransactionConfig",
                "ContractConfig", "Authorities"}

ConfigOk(c) == [kind |-> "ok", config |-> Some(c), error |-> ""]
ConfigErr(e) == [kind |-> "err", config |-> None, error |-> e]

\* toml::from_str::<load::Config>: the document as a load::Config, or the parse error.
from_str(doc) ==
    IF doc.unknown # "none" /\ DenyUnknownFields(StructOf(doc.unknown))
    THEN ConfigErr("Cannot parse config")
    ELSE ConfigOk([home |-> doc.home, foreign |-> doc.foreign,
                   transactions |-> doc.transactions])

unwrap_or(option, default) == IF option = None THEN default ELSE option[1]

Duration_from_secs(secs) == [secs |-> secs, nanos |-> 0]

\* NodeConfig::from_load_struct with the defaults of request_timeout and poll_interval
\* exchanged.
NodeConfig_from_load_struct_Swapped(node) ==
    IF node.bin = "missing.bin"
    THEN ConfigErr("Cannot open compiled contract file")
    ELSE ConfigOk(
        [bin |-> node.bin,
         request_timeout |->
            Duration_from_secs(unwrap_or(node.request_timeout, DEFAULT_POLL_INTERVAL)),
         poll_interval |->
            Duration_from_secs(unwrap_or(node.poll_interval, DEFAULT_TIMEOUT)),
         required_confirmations |->
            unwrap_or(node.required_confirmations, DEFAULT_CONFIRMATIONS)])

NodeConfig_from_load_struct(node) ==
    IF node.bin = "missing.bin"
    THEN ConfigErr("Cannot open compiled contract file")
    ELSE ConfigOk(
        [bin |-> node.bin,
         request_timeout |->
            Duration_from_secs(unwrap_or(node.request_timeout, DEFAULT_TIMEOUT)),
         poll_interval |->
            Duration_from_secs(unwrap_or(node.poll_interval, DEFAULT_POLL_INTERVAL)),
         required_confirmations |->
            unwrap_or(node.required_confirmations, DEFAULT_CONFIRMATIONS)])

\* #[derive(Default)] of TransactionConfig and of Transactions.
TransactionConfig_default == [gas |-> 0, gas_price |-> 0]

Transactions_default == [t \in TransactionTypes |-> TransactionConfig_default]

TransactionConfig_from_load_struct(cfg) ==
    [gas |-> unwrap_or(cfg.gas, 0), gas_price |-> unwrap_or(cfg.gas_price, 0)]

Transactions_from_load_struct(cfg) ==
    [t \in TransactionTypes |->
        IF cfg[t] = None THEN TransactionConfig_default
        ELSE TransactionConfig_from_load_struct(cfg[t][1])]

Config_from_load_struct(c) ==
    LET home == NodeConfig_from_load_struct(c.home)
        foreign == NodeConfig_from_load_struct(c.foreign)
    IN  IF home.kind = "err" THEN home
        ELSE IF foreign.kind = "err" THEN foreign
        ELSE ConfigOk(
            [home |-> home.config[1],
             foreign |-> foreign.config[1],
             txs |-> IF c.transactions = None THEN Transactions_default
                     ELSE Transactions_from_load_struct(c.transactions[1])])

load_from_str(doc) ==
    LET parsed == from_str(doc) IN
    IF parsed.kind = "err" THEN parsed ELSE Config_from_load_struct(parsed.config[1])

\* The documents the check draws from: every pair of node tables with no transactions
\* table or a sample one, every transactions table with minimal nodes, and each of the
\* latter with an unknown field at each place.
MinimalNode ==
    [bin |-> "HomeBridge.bin", request_timeout |-> None, poll_interval |-> None,
     required_confirmations |-> None]

SampleTransactions ==
    [t \in TransactionTypes |->
        IF t = "home_deploy" THEN Some([gas |-> Some(MaxValue), gas_price |-> None])
        ELSE None]

Documents ==
    [home : load_NodeConfig, foreign : load_NodeConfig,
     transactions : {None, Some(SampleTransactions)}, unknown : {"none"}]
    \cup
    [home : {MinimalNode}, foreign : {MinimalNode},
     transactions : Optional(load_Transactions), unknown : {"none"} \cup Places]

InitConfig ==
    /\ file = NoFile
    /\ readable = TRUE
    /\ phase = "idle"
    /\ notified = FALSE
    /\ main_future = NoFuture
    /\ test_future = NoFuture
    /\ history = <<>>
    /\ plan = NoPlan
    /\ document \in Documents
    /\ config = None

\* Config::load_from_str on the document.
LoadFromStr ==
    /\ config = None
    /\ config' = Some(load_from_str(document))
    /\ UNCHANGED <<app_vars, plan, document>>

NextConfig == LoadFromStr

SpecConfig == InitConfig /\ [][NextConfig]_vars

\* ------------------------------------------------------------------ properties

Runs == DOMAIN history

\* What the path held before the first run.
InitialFile == IF history = <<>> THEN file ELSE history[1].file_before

Finished(e) == e.outcome.kind # "running"

Deployed(e) == e.deploy_calls > 0

NoTransactions(e) == e.deploy_calls = 0 /\ e.main_txs = 0 /\ e.test_txs = 0

MissingAddress(fut) == fut.state = "ok" /\ fut.receipt[1].contract_address = None

EqualCursors(database) ==
    /\ database.mainnet.deploy_block_number = database.mainnet.last_block_number
    /\ database.testnet.deploy_block_number = database.testnet.last_block_number

\* C1: two consecutive ensure_deployed calls, the first starting from an absent record and
\* succeeding, return the identical record, and the second one calls deploy() zero times
\* and submits no transaction on either network.
C1_Idempotence ==
    \A i \in Runs :
        (i + 1 \in Runs
            /\ history[i].loaded = Err(IoError("NotFound"))
            /\ history[i].outcome.kind = "ok")
        => /\ history[i + 1].outcome = history[i].outcome
           /\ NoTransactions(history[i + 1])
           /\ history[i + 1].saves = 0

C1_Witness ==
    /\ Len(history) = 2
    /\ history[1].loaded = Err(IoError("NotFound"))
    /\ history[1].outcome.kind = "ok"
    /\ history[2].outcome.kind = "ok"
    /\ history[1].outcome.database[1].mainnet.deploy_block_number
         # history[1].outcome.database[1].testnet.deploy_block_number

\* C2 (as claimed): on a path that started absent, a record is in persisted storage if and
\* only if some run had both deployments confirmed and combined successfully.
C2_Original ==
    InitialFile = NoFile =>
        (file.exists <=> \E i \in Runs : history[i].saves > 0)

\* C2 (amended): the path changes only in a step in which both confirmation tasks hold a
\* receipt with a contract address, and then to exactly the serialized record built from
\* those two receipts; both confirmed and combined is necessary for a record to be
\* persisted, not sufficient (the save can fail).
C2_PersistedOnlyAfterBoth ==
    [][file' # file =>
          /\ main_future.state = "ok" /\ ~MissingAddress(main_future)
          /\ test_future.state = "ok" /\ ~MissingAddress(test_future)
          /\ file' = FileOf(Serialize(Database(main_future.receipt[1],
                                               test_future.receipt[1])))
          /\ Deserialize(file'.content) # None]_vars

C2_Witness ==
    /\ history # <<>>
    /\ Last.writes = 1
    /\ file.exists
    /\ InitialFile = NoFile

\* C3: once either confirmation task has failed, the run fails with the Web3 error: no
\* record is returned, nothing is written and the path is still absent; the failure ends
\* the run at the poll that sees it.
C3_FailureWritesNothing ==
    /\ (history # <<>> /\ Deployed(Last)
          /\ (main_future.state = "err" \/ test_future.state = "err"))
       => /\ file = NoFile
          /\ Last.writes = 0 /\ Last.saves = 0
          /\ Last.outcome.kind \in {"running", "err", "killed"}
          /\ Last.outcome.kind = "err" => Last.outcome.error.kind = "Web3"
          /\ Last.outcome.kind = "running" => notified
    /\ \A i \in Runs :
        (Finished(history[i])
            /\ (history[i].main_end = "err" \/ history[i].test_end = "err"))
        => /\ history[i].outcome.kind \in {"err", "killed"}
           /\ history[i].writes = 0
           /\ history[i].file_after = NoFile

C3_Witness ==
    /\ history # <<>>
    /\ phase = "idle"
    /\ Last.main_end = "ok"
    /\ Last.test_end = "err"
    /\ Last.outcome.kind = "err"
    /\ file = NoFile

\* C4: a load that fails for any reason other than NotFound makes ensure_deployed fail
\* with that error; deploy() is not called, no transaction is submitted and the file is
\* left as it was.
C4_OnlyAbsentDeploys ==
    \A i \in Runs :
        (history[i].loaded.kind = "err" /\ history[i].loaded.error # IoError("NotFound"))
        => /\ history[i].outcome = Err(history[i].loaded.error)
           /\ NoTransactions(history[i])
           /\ history[i].saves = 0
           /\ history[i].file_after = history[i].file_before
           /\ i = Len(history) => file = history[i].file_before

C4_Witness ==
    /\ Len(history) = 2
    /\ history[1].loaded = Err(TomlError)
    /\ history[2].loaded = Err(TomlError)
    /\ file.exists

C4_WitnessPermission ==
    /\ history # <<>>
    /\ Last.loaded = Err(IoError("PermissionDenied"))

\* C5: over any sequence of runs against the path, failed and interrupted ones included,
\* the path is written at most once in total, and a run saves at most once.
C5_AtMostOneWrite ==
    /\ Cardinality({i \in Runs : history[i].writes > 0}) <= 1
    /\ \A i \in Runs : history[i].writes <= 1 /\ history[i].saves <= 1

C5_Witness ==
    /\ Len(history) = 2
    /\ history[1].outcome.kind \in {"err", "killed", "panic"}
    /\ Deployed(history[1])
    /\ history[2].writes = 1

\* C6: a record deploy() produces has deploy_block_number = last_block_number on both
\* networks, and so has every record a run returns after deploying and every record that
\* is written to the path.
C6_EqualCursors ==
    /\ (phase = "deploying" /\ deploy(main_future, test_future).kind = "ok")
       => EqualCursors(deploy(main_future, test_future).database[1])
    /\ \A i \in Runs :
        (Deployed(history[i]) /\ history[i].outcome.kind = "ok")
        => EqualCursors(history[i].outcome.database[1])
    /\ \A i \in Runs :
        history[i].writes > 0
        => /\ history[i].file_after.content[1] = history[i].file_after.content[2]
           /\ history[i].file_after.content[4] = history[i].file_after.content[5]

C6_Witness ==
    /\ history # <<>>
    /\ Last.writes = 1
    /\ Last.outcome.kind = "ok"
    /\ Last.outcome.database[1].mainnet.deploy_block_number = 1
    /\ Last.outcome.database[1].testnet.deploy_block_number = 0

\* C7 (as claimed): when mainnet confirms and testnet fails, the run fails, the path stays
\* absent, and the error differs from the error of every run in which mainnet failed.
C7_Original ==
    \A i \in Runs :
        (Finished(history[i]) /\ history[i].outcome.kind # "killed"
            /\ history[i].main_end = "ok" /\ history[i].test_end = "err")
        => /\ history[i].outcome.kind = "err"
           /\ history[i].file_after = NoFile
           /\ \A j \in Runs :
                (history[j].outcome.kind = "err" /\ history[j].main_end = "err")
                => history[j].outcome.error # history[i].outcome.error

\* C8: with a valid record at the path, ensure_deployed returns exactly that record,
\* submits no transaction and leaves the file as it was.
C8_PresentRecordReturned ==
    \A i \in Runs :
        (history[i].file_before.exists
            /\ Deserialize(history[i].file_before.content) # None
            /\ history[i].loaded.kind # "err")
        => /\ history[i].outcome = Ok(Deserialize(history[i].file_before.content)[1])
           /\ NoTransactions(history[i])
           /\ history[i].saves = 0 /\ history[i].writes = 0
           /\ history[i].file_after = history[i].file_before
           /\ i = Len(history) => file = history[i].file_before

C8_Witness ==
    /\ history # <<>>
    /\ Last.loaded.kind = "ok"
    /\ Last.outcome.kind = "ok"
    /\ Last.outcome.database[1].mainnet.last_block_number
         # Last.outcome.database[1].mainnet.deploy_block_number

\* C9: when both tasks hold a receipt and one of them has no contract address, the run
\* ends in a panic at the poll that sees it: no record is returned, nothing is saved, the
\* path is as it was, and deploy() was called once.
C9_MissingAddressPanics ==
    (history # <<>> /\ Deployed(Last)
        /\ main_future.state = "ok" /\ test_future.state = "ok"
        /\ (MissingAddress(main_future) \/ MissingAddress(test_future)))
    => /\ Last.outcome.kind \in {"running", "panic", "killed"}
       /\ Last.outcome.kind = "running" => notified
       /\ Last.outcome.database = None
       /\ Last.saves = 0
       /\ file = Last.file_before
       /\ Last.deploy_calls = 1 /\ Last.main_txs = 1 /\ Last.test_txs = 1

C9_Witness ==
    /\ history # <<>>
    /\ Last.outcome = Panic
    /\ ~MissingAddress(main_future)
    /\ MissingAddress(test_future)

\* C10: a run that is not interrupted ends with a complete record or with an error (a
\* returned error or a panic); a run that returns a record after deploying has written
\* exactly that record; a run that ends with an error has written nothing; and the path
\* never holds a partial record written by a run.
C10_RecordOrError ==
    /\ \A i \in Runs :
        (Finished(history[i]) /\ history[i].outcome.kind # "killed")
        => /\ history[i].outcome.kind \in {"ok", "err", "panic"}
           /\ history[i].outcome.kind = "ok"
                => /\ history[i].outcome.database # None
                   /\ history[i].file_after
                        = FileOf(Serialize(history[i].outcome.database[1]))
                   /\ Deployed(history[i]) <=> history[i].writes = 1
           /\ history[i].outcome.kind \in {"err", "panic"}
                => /\ history[i].outcome.database = None
                   /\ history[i].writes = 0
                   /\ history[i].file_after = history[i].file_before
    /\ (file.exists /\ file # InitialFile) => Deserialize(file.content) # None

C10_Witness ==
    /\ Len(history) = 2
    /\ history[1].outcome = Err(IoError("WriteFailed"))
    /\ history[2].outcome.kind = "ok"
    /\ history[2].writes = 1

ResolvedByPoll(e) == Deployed(e) /\ e.outcome.kind \in {"ok", "err", "panic"}

\* C13 (as claimed): a deploy that has resolved, with success or with failure, has no
\* confirmation task that was still pending when it resolved.
C13_Original ==
    \A i \in Runs :
        ResolvedByPoll(history[i])
        => /\ history[i].main_end \in {"ok", "err"}
           /\ history[i].test_end \in {"ok", "err"}

\* C13 (amended): deploy resolves with a record (or reaches the construction of the
\* record) only when both tasks hold a receipt; it resolves with the Web3 error as soon as
\* a poll finds one task failed, whatever the state of the other.
C13_JoinCompletion ==
    \A i \in Runs :
        ResolvedByPoll(history[i])
        => IF history[i].outcome.kind = "err" /\ history[i].outcome.error.kind = "Web3"
           THEN history[i].main_end = "err" \/ history[i].test_end = "err"
           ELSE history[i].main_end = "ok" /\ history[i].test_end = "ok"

C13_Witness ==
    /\ history # <<>>
    /\ Last.outcome.kind = "err"
    /\ Last.main_end = "err"
    /\ Last.test_end = "pending"
    /\ test_future = Dropped

C13_WitnessSuccess ==
    /\ history # <<>>
    /\ Deployed(Last)
    /\ Last.outcome.kind = "ok"
    /\ Last.main_end = "ok" /\ Last.test_end = "ok"

\* C15: when both tasks succeed, the mainnet entry of the record holds the low limb of the
\* mainnet receipt's block number (twice) and the displayed form of the mainnet receipt's
\* contract address, and the testnet entry the same of the testnet receipt; the record
\* written is that record.
BuiltFromOwnReceipt(state, receipt) ==
    /\ state.deploy_block_number = receipt.block_number.low
    /\ state.last_block_number = receipt.block_number.low
    /\ state.bridge_contract_address = receipt.contract_address[1].ends

C15_OwnReceipt ==
    /\ (phase = "deploying" /\ deploy(main_future, test_future).kind = "ok")
       => LET database == deploy(main_future, test_future).database[1] IN
          /\ BuiltFromOwnReceipt(database.mainnet, main_future.receipt[1])
          /\ BuiltFromOwnReceipt(database.testnet, test_future.receipt[1])
    /\ (history # <<>> /\ phase = "idle" /\ Deployed(Last) /\ Last.outcome.kind = "ok")
       => /\ BuiltFromOwnReceipt(Last.outcome.database[1].mainnet, main_future.receipt[1])
          /\ BuiltFromOwnReceipt(Last.outcome.database[1].testnet, test_future.receipt[1])
          /\ file = FileOf(<<main_future.receipt[1].block_number.low,
                             main_future.receipt[1].block_number.low,
                             main_future.receipt[1].contract_address[1].ends,
                             test_future.receipt[1].block_number.low,
                             test_future.receipt[1].block_number.low,
                             test_future.receipt[1].contract_address[1].ends>>)

C15_Witness ==
    /\ history # <<>>
    /\ phase = "idle"
    /\ Deployed(Last)
    /\ Last.outcome.kind = "ok"
    /\ main_future.receipt[1].block_number = [low |-> 1, high |-> 1]
    /\ test_future.receipt[1].block_number = [low |-> 0, high |-> 0]
    /\ main_future.receipt[1].contract_address[1].ends = 0
    /\ test_future.receipt[1].contract_address[1].ends = 1

\* C16: in one ensure_deployed run deploy() is called at most once and at most one
\* deployment transaction is submitted per network, whatever the confirmation tasks return.
C16_NoRetry ==
    \A i \in Runs :
        /\ history[i].deploy_calls <= 1
        /\ history[i].main_txs <= 1
        /\ history[i].test_txs <= 1

C16_Witness ==
    /\ history # <<>>
    /\ phase = "idle"
    /\ Last.outcome.kind = "err"
    /\ Last.outcome.error.kind = "Web3"
    /\ Last.deploy_calls = 1 /\ Last.main_txs = 1 /\ Last.test_txs = 1

PartialFailure(e) ==
    /\ e.outcome.kind = "err"
    /\ \/ e.main_end = "ok" /\ e.test_end = "err"
       \/ e.main_end = "err" /\ e.test_end = "ok"

\* C17: a run in which one network confirmed and the other failed leaves the path absent,
\* and the run after it finds the record absent and calls deploy() again, which submits a
\* transaction on both networks, the one that had succeeded included.
C17_PartialFailureGap ==
    \A i \in Runs :
        PartialFailure(history[i])
        => /\ history[i].file_after = NoFile
           /\ history[i].writes = 0
           /\ i = Len(history) => file = NoFile
           /\ i + 1 \in Runs
                => /\ history[i + 1].loaded = Err(IoError("NotFound"))
                   /\ history[i + 1].deploy_calls = 1
                   /\ history[i + 1].outcome.kind # "killed"
                        => history[i + 1].main_txs = 1 /\ history[i + 1].test_txs = 1

\* The network that had succeeded holds a second confirmed contract creation.
C17_Witness ==
    /\ Len(history) = 2
    /\ PartialFailure(history[1])
    /\ history[1].main_end = "ok"
    /\ history[2].main_txs = 1
    /\ main_future.state = "ok"
    /\ ~MissingAddress(main_future)

\* C18: a run that is terminated during deploy leaves nothing at the path, and the run
\* after it finds the record absent and deploys.
C18_KilledLeavesNothing ==
    \A i \in Runs :
        history[i].outcome.kind = "killed"
        => /\ history[i].file_after = NoFile
           /\ history[i].writes = 0 /\ history[i].saves = 0
           /\ i = Len(history) => file = NoFile
           /\ i + 1 \in Runs
                => /\ history[i + 1].loaded = Err(IoError("NotFound"))
                   /\ history[i + 1].deploy_calls = 1

\* A confirmed contract creation on mainnet with no record at the path, and a next run
\* that took the path as absent.
C18_Witness ==
    /\ history # <<>>
    /\ Last.outcome.kind = "killed"
    /\ main_future.state = "ok"
    /\ ~MissingAddress(main_future)
    /\ file = NoFile

C18_WitnessNextRun ==
    /\ Len(history) = 2
    /\ history[1].outcome.kind = "killed"
    /\ history[1].main_txs = 1
    /\ history[1].test_txs = 0
    /\ history[2].loaded = Err(IoError("NotFound"))
    /\ history[2].deploy_calls = 1

SaveFailed(e) == e.saves = 1 /\ e.writes = 0

\* C19: when both confirmations succeed and the save fails, the run returns the save's
\* error and no record, the path stays absent, and the run after it deploys again on both
\* networks.
C19_SaveFailure ==
    \A i \in Runs :
        SaveFailed(history[i])
        => /\ history[i].main_end = "ok" /\ history[i].test_end = "ok"
           /\ history[i].outcome = Err(IoError("WriteFailed"))
           /\ history[i].file_after = NoFile
           /\ i = Len(history) => file = NoFile
           /\ i + 1 \in Runs
                => /\ history[i + 1].loaded = Err(IoError("NotFound"))
                   /\ history[i + 1].deploy_calls = 1
                   /\ history[i + 1].outcome.kind # "killed"
                        => history[i + 1].main_txs = 1 /\ history[i + 1].test_txs = 1

C19_Witness ==
    /\ Len(history) = 2
    /\ SaveFailed(history[1])
    /\ history[2].deploy_calls = 1
    /\ history[2].main_txs = 1 /\ history[2].test_txs = 1
    /\ main_future.state = "ok" /\ test_future.state = "ok"

OneConfirmedOtherPending ==
    /\ phase = "deploying"
    /\ \/ main_future.state = "ok" /\ test_future = Pending
       \/ test_future.state = "ok" /\ main_future = Pending

\* C20: in a process that is left running and whose confirmation tasks eventually resolve,
\* every run that deploys eventually resolves; and no step resolves the run or writes the
\* path while one task holds a receipt and the other is still pending (there is no
\* timeout), so the run stays unresolved for as long as that task does not resolve.
C20_ResolvesIffTasksResolve ==
    /\ (phase = "deploying") ~> (phase = "idle")
    /\ [][OneConfirmedOtherPending => (phase' = "deploying" /\ file' = file)]_vars

C20_Witness ==
    /\ OneConfirmedOtherPending
    /\ ~notified
    /\ main_future.state = "ok"
    /\ Last.outcome = Running
    /\ file = NoFile

BothFinished ==
    /\ Len(history) = 2
    /\ phase = "idle"
    /\ Finished(history[1])
    /\ Finished(history[2])

\* C14: two bootstraps with the same per-network results (and the same result of the
\* save) end with the same verdict, the same record and the same content of the path,
\* whatever the order in which the two tasks resolved and were polled.
C14_OrderIndependent ==
    BothFinished
    => /\ history[1].outcome.kind = history[2].outcome.kind
       /\ history[1].outcome.database = history[2].outcome.database
       /\ history[1].file_after = history[2].file_after
       /\ history[1].writes = history[2].writes

C14_Witness ==
    /\ BothFinished
    /\ plan.first[1] # plan.first[2]
    /\ history[1].outcome.kind = "ok"
    /\ history[2].outcome.kind = "ok"
    /\ plan.main.receipt # plan.test.receipt

\* The error a failed deployment returns does depend on the order.
C14_WitnessError ==
    /\ BothFinished
    /\ history[1].outcome.kind = "err"
    /\ history[2].outcome.kind = "err"
    /\ history[1].outcome.error # history[2].outcome.error

Loaded == config # None

Nodes == {"home", "foreign"}

GivenOr(option, default) == IF option = None THEN default ELSE option[1]

\* What the document gives for a field of a transaction type, None when the transactions
\* table, the type's table or the field is left out.
GivenGas(doc, t, field) ==
    IF doc.transactions = None THEN None
    ELSE IF doc.transactions[1][t] = None THEN None
    ELSE doc.transactions[1][t][1][field]

\* C11: a conversion that succeeds keeps each optional field's value where the document
\* gives one, and otherwise sets request_timeout to 5 s, poll_interval to 1 s and
\* required_confirmations to 12 for that network, and gas and gas_price to 0 for that
\* transaction type (also with no transactions table at all).
C11_Defaults ==
    (Loaded /\ config[1].kind = "ok")
    => /\ \A n \in Nodes :
            /\ config[1].config[1][n].request_timeout
                 = [secs |-> GivenOr(document[n].request_timeout, 5), nanos |-> 0]
            /\ config[1].config[1][n].poll_interval
                 = [secs |-> GivenOr(document[n].poll_interval, 1), nanos |-> 0]
            /\ config[1].config[1][n].required_confirmations
                 = GivenOr(document[n].required_confirmations, 12)
       /\ \A t \in TransactionTypes :
            /\ config[1].config[1].txs[t].gas = GivenOr(GivenGas(document, t, "gas"), 0)
            /\ config[1].config[1].txs[t].gas_price
                 = GivenOr(GivenGas(document, t, "gas_price"), 0)

\* The shape of the test load_full_setup_from_str: home gives poll_interval and
\* required_confirmations, foreign gives nothing, home_deploy gives gas only.
C11_Witness ==
    /\ Loaded
    /\ config[1].kind = "ok"
    /\ document.home.poll_interval = Some(2)
    /\ document.home.request_timeout = None
    /\ document.home.required_confirmations = Some(1)
    /\ document.foreign = MinimalNode
    /\ document.transactions = Some(SampleTransactions)
    /\ config[1].config[1].home.poll_interval = [secs |-> 2, nanos |-> 0]
    /\ config[1].config[1].foreign.poll_interval = [secs |-> 1, nanos |-> 0]
    /\ config[1].config[1].txs["home_deploy"] = [gas |-> MaxValue, gas_price |-> 0]

C11_WitnessNoTransactions ==
    /\ Loaded
    /\ config[1].kind = "ok"
    /\ document.transactions = None
    /\ config[1].config[1].txs["withdraw_relay"] = [gas |-> 0, gas_price |-> 0]

\* C12: a document with a field that is not in the schema, at whatever place, is rejected:
\* load_from_str returns the parse error and no Config.
C12_UnknownFieldsRejected ==
    (Loaded /\ document.unknown # "none")
    => /\ config[1].kind = "err"
       /\ config[1].config = None
       /\ config[1].error = "Cannot parse config"

C12_Witness ==
    /\ Loaded
    /\ document.unknown = "transactions.deposit_relay"
    /\ document.transactions # None
    /\ document.transactions[1]["deposit_relay"] # None
    /\ config[1].kind = "err"

====
